---- MODULE Spec2Model ----
(***************************************************************************)
(* jellyset: a Redis-like keyed set store (src/jellyset.go, lines 1-780).  *)
(*                                                                         *)
(* The store is one Go map from string keys to sets (map[interface{}]      *)
(* struct{}).  Every public method of *Set is one action.  The caller is   *)
(* single threaded: it issues a call, observes what the call did (call,    *)
(* ret, prev, panicked) and then moves on (Return).  Go's map iteration    *)
(* order is unspecified, so every `for ... range set` takes an arbitrary   *)
(* enumeration order of the set.  A runtime panic aborts the program.      *)
(***************************************************************************)
EXTENDS Integers, Sequences, FiniteSets, TLC

\* ---------------------------------------------------------------- bounds
NumKeys == 2
NumMembers == 2
MaxKeys == 3
MaxMembers == 2
MaxCount == 2
MaxSets == 2

KeyUniverse == <<"k1", "k2", "k3", "k4", "k5">>
MemberUniverse == <<"a", "b", "c", "d", "e">>

\* the string keys and the members the caller passes
Keys == {KeyUniverse[i] : i \in 1..NumKeys}
Members == {MemberUniverse[i] : i \in 1..NumMembers}
\* the count arguments the caller passes (negative, zero, positive)
Counts == (0 - 1)..MaxCount

SeqsUpTo(S, n) == UNION {[1..m -> S] : m \in 0..n}
KeyLists == SeqsUpTo(Keys, MaxKeys)
SetLists == SeqsUpTo(SUBSET Members, MaxSets)
MemberLists == SeqsUpTo(Members, MaxMembers)

Range(s) == {s[i] : i \in 1..Len(s)}
Min(a, b) == IF a < b THEN a ELSE b

\* the zero value of interface{}: what make([]interface{}, n) is filled with
Nil == "nil"

\* the orders in which `for k := range set` may visit a Go map
Orders(S) == {o \in [1..Cardinality(S) -> S] : \A i, j \in 1..Cardinality(S) : i # j => o[i] # o[j]}

\* ----------------------------------------------------------------- state
VARIABLES
    records,    \* Set.records: the keys present and the set of each
    call,       \* the call the caller has just made ("none" between calls)
    ret,        \* what that call returned
    prev,       \* Set.records as it was when the call was made
    panicked,   \* the call raised a runtime panic instead of returning
    freshAdd,   \* the call before this one, when it was an SAdd on a store without keys
    prim        \* the last call of a primitive set helper, its inputs and its outputs

vars == <<records, call, ret, prev, panicked, freshAdd, prim>>
storeVars == <<records, call, ret, prev, panicked, freshAdd>>

NoCall == [op |-> "none", key |-> "", dest |-> "", keys |-> <<>>, members |-> <<>>, count |-> 0]
NoRet == [count |-> 0, ok |-> FALSE, list |-> <<>>]

NoFreshAdd == [fresh |-> FALSE, key |-> "", members |-> <<>>]
NoPrim == [op |-> "none", sets |-> <<>>, items |-> <<>>, after |-> <<>>, result |-> {}, ok |-> FALSE]

Call(op, key, dest, keys, members, count) ==
    [op |-> op, key |-> key, dest |-> dest, keys |-> keys, members |-> members, count |-> count]

\* -------------------------------------------------------- primitive set
\* newSet(): an empty set
newSet == {}

\* set.add(items...)
add(s, items) == IF Len(items) = 0 THEN s ELSE s \cup Range(items)

\* set.remove(items...)
remove(s, items) == IF Len(items) = 0 THEN s ELSE s \ Range(items)

\* set.has(items...): false for no items, else true iff all are present
RECURSIVE hasLoop(_, _, _)
hasLoop(s, items, i) ==
    IF i > Len(items) THEN TRUE
    ELSE IF items[i] \notin s THEN FALSE
    ELSE hasLoop(s, items, i + 1)

\* as has, without the return for no items: the loop's initial exist = true
has_TrueForNoItems(s, items) == hasLoop(s, items, 1)

has(s, items) == IF Len(items) = 0 THEN FALSE ELSE hasLoop(s, items, 1)

\* set.size()
size(s) == Cardinality(s)

\* set.list(): the slice is made with length 0 (capacity len(s)) and the loop
\* assigns list[i] = item, so the first iteration indexes past the length:
\* a runtime panic whenever the set holds an element.  order is the map's
\* iteration order.
list(s, order) ==
    IF Len(order) > 0
    THEN [panic |-> TRUE, list |-> <<>>]
    ELSE [panic |-> FALSE, list |-> <<>>]

\* set.copy(): a new set to which every item of s is added
copy(s) == newSet \cup UNION {add(newSet, <<item>>) : item \in s}

\* union(sets...): every item of every set is written into a new map; the
\* inputs are only read.  Returns the new set and the inputs afterwards.
RECURSIVE unionLoop(_, _, _)
unionLoop(sets, i, unionSet) ==
    IF i > Len(sets) THEN unionSet
    ELSE unionLoop(sets, i + 1, unionSet \cup sets[i])

union(sets) ==
    IF Len(sets) = 0 THEN [result |-> newSet, sets |-> sets]
    ELSE [result |-> unionLoop(sets, 1, newSet), sets |-> sets]

\* difference(sets...): the items of sets[0] are written into a new map and
\* the items of every later set are deleted from it
RECURSIVE differenceLoop(_, _, _)
differenceLoop(sets, i, resultSet) ==
    IF i > Len(sets) THEN resultSet
    ELSE differenceLoop(sets, i + 1, resultSet \ sets[i])

\* as difference, deleting from sets[0] itself instead of from a new map
difference_DeletesFromFirst(sets) ==
    IF Len(sets) = 0 THEN [result |-> newSet, sets |-> sets]
    ELSE LET resultSet == differenceLoop(sets, 2, sets[1])
         IN [result |-> resultSet, sets |-> [sets EXCEPT ![1] = resultSet]]

difference(sets) ==
    IF Len(sets) = 0 THEN [result |-> newSet, sets |-> sets]
    ELSE [result |-> differenceLoop(sets, 2, copy(sets[1])), sets |-> sets]

\* isPresentInAll(sets, item)
RECURSIVE isPresentInAll(_, _, _)
isPresentInAll(sets, item, i) ==
    IF i > Len(sets) THEN TRUE
    ELSE IF item \notin sets[i] THEN FALSE
    ELSE isPresentInAll(sets, item, i + 1)

\* intersection(sets...): the items of sets[0] that are in all of sets[1:]
intersection(sets) ==
    IF Len(sets) = 0 THEN [result |-> newSet, sets |-> sets]
    ELSE [result |-> {item \in sets[1] : isPresentInAll(Tail(sets), item, 1)},
          sets |-> sets]

\* Set.exists(key)
exists(recs, key) == key \in DOMAIN recs

\* Set.fieldExists(key, member)
fieldExists(recs, key, member) ==
    IF ~exists(recs, key) THEN FALSE ELSE member \in recs[key]

\* s.records[key] = set
Put(recs, key, s) == [k \in (DOMAIN recs) \cup {key} |-> IF k = key THEN s ELSE recs[k]]

\* delete(s.records, key)
Delete(recs, key) == [k \in (DOMAIN recs) \ {key} |-> recs[k]]

\* s.records[key] read as Go reads a map: the nil (empty) set when absent
Lookup(recs, key) == IF key \in DOMAIN recs THEN recs[key] ELSE {}

\* ------------------------------------------------------------------ SAdd
\* the loop of SAdd over members: insert when absent and count the insert
RECURSIVE SAddLoop(_, _, _, _)
RECURSIVE SAddLoop_CountsEveryMember(_, _, _, _)
\* as SAddLoop, with added++ outside the `if !exists`
SAddLoop_CountsEveryMember(s, members, i, added) ==
    IF i > Len(members) THEN [set |-> s, added |-> added]
    ELSE SAddLoop_CountsEveryMember(s \cup {members[i]}, members, i + 1, added + 1)

SAddLoop(s, members, i, added) ==
    IF i > Len(members) THEN [set |-> s, added |-> added]
    ELSE IF members[i] \notin s
         THEN SAddLoop(s \cup {members[i]}, members, i + 1, added + 1)
         ELSE SAddLoop(s, members, i + 1, added)

\* as SAddOn, returning before the key is created when no member is given
SAddOn_NoMembersNoKey(recs, key, members) ==
    IF Len(members) = 0 THEN [records |-> recs, added |-> 0]
    ELSE LET recs1 == IF ~exists(recs, key) THEN Put(recs, key, newSet) ELSE recs
             r == SAddLoop(recs1[key], members, 1, 0)
         IN [records |-> Put(recs1, key, r.set), added |-> r.added]

\* SAdd as a function of the store: the store afterwards and the count
SAddOn(recs, key, members) ==
    LET recs1 == IF ~exists(recs, key) THEN Put(recs, key, newSet) ELSE recs
        r == SAddLoop(recs1[key], members, 1, 0)
    IN [records |-> Put(recs1, key, r.set), added |-> r.added]

\* ------------------------------------------------------------------ SPop
\* the loop of SPop: visit the map in its order, copy the visited element to
\* members[i], delete it, stop once count elements were taken.  i is the
\* code's 0-based index; members was made with length count (all nil).
RECURSIVE SPopLoop(_, _, _, _, _)
RECURSIVE SPopLoop_BreaksEarly(_, _, _, _, _)
\* as SPopLoop, leaving the loop before the last requested member is stored
SPopLoop_BreaksEarly(s, members, order, i, count) ==
    IF i >= Len(order) \/ i + 1 = count THEN [set |-> s, members |-> members]
    ELSE LET k == order[i + 1]
             members1 == [members EXCEPT ![i + 1] = k]
             s1 == s \ {k}
         IN SPopLoop_BreaksEarly(s1, members1, order, i + 1, count)

SPopLoop(s, members, order, i, count) ==
    IF i >= Len(order) THEN [set |-> s, members |-> members]
    ELSE LET k == order[i + 1]
             members1 == [members EXCEPT ![i + 1] = k]
             s1 == s \ {k}
         IN IF i + 1 = count THEN [set |-> s1, members |-> members1]
            ELSE SPopLoop(s1, members1, order, i + 1, count)

\* as SPopOn, deleting the key from records once its set is emptied
SPopOn_DropsEmptiedKey(recs, key, count, order) ==
    IF ~exists(recs, key) \/ count <= 0
    THEN [records |-> recs, list |-> <<>>]
    ELSE LET r == SPopLoop(recs[key], [j \in 1..count |-> Nil], order, 0, count)
         IN [records |-> IF r.set = {} THEN Delete(recs, key) ELSE Put(recs, key, r.set),
             list |-> r.members]

\* as SPopOn, creating the key when it is absent as SAdd does
SPopOn_CreatesAbsentKey(recs, key, count, order) ==
    IF count <= 0 THEN [records |-> recs, list |-> <<>>]
    ELSE IF ~exists(recs, key) THEN [records |-> Put(recs, key, newSet), list |-> <<>>]
    ELSE LET r == SPopLoop(recs[key], [j \in 1..count |-> Nil], order, 0, count)
         IN [records |-> Put(recs, key, r.set), list |-> r.members]

\* SPop as a function of the store; order is the iteration order of the set
SPopOn(recs, key, count, order) ==
    IF ~exists(recs, key) \/ count <= 0
    THEN [records |-> recs, list |-> <<>>]
    ELSE LET r == SPopLoop(recs[key], [j \in 1..count |-> Nil], order, 0, count)
         IN [records |-> Put(recs, key, r.set), list |-> r.members]

\* ----------------------------------------------------------- SRandMember
\* the loop of the count > 0 branch: as SPop's, without the delete
RECURSIVE SRandMemberLoop(_, _, _, _)
SRandMemberLoop(members, order, i, count) ==
    IF i >= Len(order) THEN members
    ELSE LET members1 == [members EXCEPT ![i + 1] = order[i + 1]]
         IN IF i + 1 = count THEN members1
            ELSE SRandMemberLoop(members1, order, i + 1, count)

\* SRandMember; the else branch (count <= 0) of the code cannot be entered
\* past the count < 1 guard
SRandMemberOn(recs, key, count, order) ==
    IF ~exists(recs, key) \/ count < 1
    THEN <<>>
    ELSE IF count > 0
         THEN SRandMemberLoop([j \in 1..count |-> Nil], order, 0, count)
         ELSE [j \in 1..count |-> Nil]

\* ------------------------------------------------- SIsMember, SRem, SMove
SIsMemberOn(recs, key, member) ==
    IF ~exists(recs, key) THEN FALSE ELSE member \in recs[key]

\* as SRemOn, reporting true for any key that exists
SRemOn_TrueForAnyMember(recs, key, member) ==
    IF ~exists(recs, key) THEN [records |-> recs, ok |-> FALSE]
    ELSE [records |-> Put(recs, key, recs[key] \ {member}), ok |-> TRUE]

\* as SRemOn, creating the key when it is absent, as SAdd does
SRemOn_CreatesAbsentKey(recs, key, member) ==
    LET recs1 == IF ~exists(recs, key) THEN Put(recs, key, newSet) ELSE recs
    IN IF fieldExists(recs1, key, member)
       THEN [records |-> Put(recs1, key, remove(recs1[key], <<member>>)), ok |-> TRUE]
       ELSE [records |-> recs1, ok |-> FALSE]

SRemOn(recs, key, member) ==
    IF ~exists(recs, key) THEN [records |-> recs, ok |-> FALSE]
    ELSE IF member \in recs[key]
         THEN [records |-> Put(recs, key, recs[key] \ {member}), ok |-> TRUE]
         ELSE [records |-> recs, ok |-> FALSE]

\* as SMoveOn, without the srcSet.remove(member)
SMoveOn_KeepsMemberInSrc(recs, src, dest, member) ==
    IF ~fieldExists(recs, src, member) THEN [records |-> recs, ok |-> FALSE]
    ELSE LET recs1 == IF ~exists(recs, dest) THEN Put(recs, dest, newSet) ELSE recs
             recs3 == Put(recs1, dest, add(recs1[dest], <<member>>))
         IN [records |-> recs3, ok |-> TRUE]

\* as SMoveOn, with destSet.add(member) before srcSet.remove(member)
SMoveOn_AddsBeforeRemoving(recs, src, dest, member) ==
    IF ~fieldExists(recs, src, member) THEN [records |-> recs, ok |-> FALSE]
    ELSE LET recs1 == IF ~exists(recs, dest) THEN Put(recs, dest, newSet) ELSE recs
             recs2 == Put(recs1, dest, add(recs1[dest], <<member>>))
             recs3 == Put(recs2, src, remove(recs2[src], <<member>>))
         IN [records |-> recs3, ok |-> TRUE]

\* as SMoveOn, making the destination key before member is looked up in src
SMoveOn_MakesDestFirst(recs, src, dest, member) ==
    LET recs1 == IF ~exists(recs, dest) THEN Put(recs, dest, newSet) ELSE recs
    IN IF ~fieldExists(recs1, src, member) THEN [records |-> recs1, ok |-> FALSE]
       ELSE LET recs2 == Put(recs1, src, remove(recs1[src], <<member>>))
                recs3 == Put(recs2, dest, add(recs2[dest], <<member>>))
            IN [records |-> recs3, ok |-> TRUE]

\* srcSet and destSet are looked up by key, so with src = dest they are the
\* same map: the remove and the add act on it one after the other
SMoveOn(recs, src, dest, member) ==
    IF ~fieldExists(recs, src, member) THEN [records |-> recs, ok |-> FALSE]
    ELSE LET recs1 == IF ~exists(recs, dest) THEN Put(recs, dest, newSet) ELSE recs
             recs2 == Put(recs1, src, remove(recs1[src], <<member>>))
             recs3 == Put(recs2, dest, add(recs2[dest], <<member>>))
         IN [records |-> recs3, ok |-> TRUE]

\* ------------------------------------------------------- SCard, SMembers
SCardOn(recs, key) == IF ~exists(recs, key) THEN 0 ELSE size(recs[key])

\* as SMembersOn, with the slice made with length len(set) before the appends
SMembersOn_AppendsToSizedSlice(recs, key, order) ==
    IF ~exists(recs, key) THEN <<>> ELSE [j \in 1..Len(order) |-> Nil] \o order

\* SMembers appends every visited element: the visiting order itself
SMembersOn(recs, key, order) == IF ~exists(recs, key) THEN <<>> ELSE order

\* ---------------------------------------------------- SKeyExists, SClear
SKeyExistsOn(recs, key) == exists(recs, key)

\* as SClearOn, emptying the key's set instead of deleting the key
SClearOn_EmptiesSet(recs, key) == IF exists(recs, key) THEN Put(recs, key, newSet) ELSE recs

\* as SClearOn, replacing records by a new map instead of deleting one key
SClearOn_ClearsStore(recs, key) == IF exists(recs, key) THEN <<>> ELSE recs

SClearOn(recs, key) == IF exists(recs, key) THEN Delete(recs, key) ELSE recs

\* ---------------------------------------------------- SUnion, SUnionStore
\* the loop of SUnion over keys: a key that exists pours its members into
\* unionSet, a key that does not is skipped
RECURSIVE SUnionLoop(_, _, _, _)
SUnionLoop(recs, keys, i, unionSet) ==
    IF i > Len(keys) THEN unionSet
    ELSE IF exists(recs, keys[i])
         THEN SUnionLoop(recs, keys, i + 1, unionSet \cup recs[keys[i]])
         ELSE SUnionLoop(recs, keys, i + 1, unionSet)

\* the unionSet that SUnion hands to list()
SUnionSet(recs, keys) == SUnionLoop(recs, keys, 1, newSet)

\* SUnion; order is the iteration order of unionSet inside list()
SUnionOn(recs, keys, order) ==
    IF Len(keys) = 0 THEN [panic |-> FALSE, list |-> <<>>]
    ELSE list(SUnionSet(recs, keys), order)

\* the loop of the store variants: one SAdd(storeKey, item) per result item
RECURSIVE StoreLoop(_, _, _, _)
StoreLoop(recs, storeKey, items, i) ==
    IF i > Len(items) THEN recs
    ELSE StoreLoop(SAddOn(recs, storeKey, <<items[i]>>).records, storeKey, items, i + 1)

\* as StoreOn, creating the destination key before the items are added
StoreOn_CreatesDest(recs, storeKey, r) ==
    IF r.panic THEN [panic |-> TRUE, records |-> recs, count |-> 0]
    ELSE [panic |-> FALSE,
          records |-> StoreLoop(SAddOn(recs, storeKey, <<>>).records, storeKey, r.list, 1),
          count |-> Len(r.list)]

\* a store variant given the result r of its query: a panic of the query
\* leaves the store as it was, otherwise the items are added and counted
StoreOn(recs, storeKey, r) ==
    IF r.panic THEN [panic |-> TRUE, records |-> recs, count |-> 0]
    ELSE [panic |-> FALSE, records |-> StoreLoop(recs, storeKey, r.list, 1), count |-> Len(r.list)]

SUnionStoreOn(recs, storeKey, keys, order) == StoreOn(recs, storeKey, SUnionOn(recs, keys, order))

\* ------------------------------------------------------ SDiff, SDiffStore
\* the loop of SDiff that fills excludeMap: a key equal (as a string) to
\* keys[0] is skipped, a key not in the store ends the call with no result
RECURSIVE SDiffExclude(_, _, _, _)
RECURSIVE SDiffExclude_SkipsMissing(_, _, _, _)
\* as SDiffExclude, skipping a key that is not in the store as SUnion does
SDiffExclude_SkipsMissing(recs, keys, i, excludeMap) ==
    IF i > Len(keys) THEN [missing |-> FALSE, excludeMap |-> excludeMap]
    ELSE IF keys[i] # keys[1] /\ exists(recs, keys[i])
         THEN SDiffExclude_SkipsMissing(recs, keys, i + 1, excludeMap \cup recs[keys[i]])
         ELSE SDiffExclude_SkipsMissing(recs, keys, i + 1, excludeMap)

SDiffExclude(recs, keys, i, excludeMap) ==
    IF i > Len(keys) THEN [missing |-> FALSE, excludeMap |-> excludeMap]
    ELSE IF keys[i] # keys[1]
         THEN IF ~exists(recs, keys[i])
              THEN [missing |-> TRUE, excludeMap |-> excludeMap]
              ELSE SDiffExclude(recs, keys, i + 1, excludeMap \cup recs[keys[i]])
         ELSE SDiffExclude(recs, keys, i + 1, excludeMap)

\* the set SDiff enumerates: the first key's set (through list() for one
\* key, in its own loop for more)
SDiffFirstSet(recs, keys) == IF Len(keys) = 0 THEN {} ELSE Lookup(recs, keys[1])

\* SDiff; order is the iteration order of the first key's set
SDiffOn(recs, keys, order) ==
    IF Len(keys) = 0 THEN [panic |-> FALSE, list |-> <<>>]
    ELSE IF Len(keys) = 1
         THEN IF exists(recs, keys[1]) THEN list(recs[keys[1]], order)
              ELSE [panic |-> FALSE, list |-> <<>>]
         ELSE LET e == SDiffExclude(recs, keys, 1, {})
                  Kept(item) == item \notin e.excludeMap
              IN IF e.missing THEN [panic |-> FALSE, list |-> <<>>]
                 ELSE [panic |-> FALSE, list |-> SelectSeq(order, Kept)]

SDiffStoreOn(recs, storeKey, keys, order) == StoreOn(recs, storeKey, SDiffOn(recs, keys, order))

\* ---------------------------------------------------- SInter, SInterStore
\* math.MaxInt stands in as any value above every len(set)
MaxInt == 2147483647

\* the first loop of SInter: the first set of strictly smallest size, or
\* missing when a key is not in the store
RECURSIVE SInterSmallest(_, _, _, _)
SInterSmallest(recs, keys, i, best) ==
    IF i > Len(keys) THEN best
    ELSE IF ~exists(recs, keys[i]) THEN [best EXCEPT !.missing = TRUE]
    ELSE IF Cardinality(recs[keys[i]]) < best.smallestSize
         THEN SInterSmallest(recs, keys, i + 1,
                  [missing |-> FALSE, smallestSize |-> Cardinality(recs[keys[i]]),
                   smallestSet |-> recs[keys[i]], smallestKey |-> keys[i]])
         ELSE SInterSmallest(recs, keys, i + 1, best)

\* the second loop of SInter: every key other than smallestKey (as a string)
\* drops from inAllSets the items its set does not have
RECURSIVE SInterFilter(_, _, _, _, _)
SInterFilter(recs, keys, i, smallestKey, inAllSets) ==
    IF i > Len(keys) THEN [missing |-> FALSE, inAllSets |-> inAllSets]
    ELSE IF keys[i] # smallestKey
         THEN IF ~exists(recs, keys[i])
              THEN [missing |-> TRUE, inAllSets |-> inAllSets]
              ELSE SInterFilter(recs, keys, i + 1, smallestKey,
                       {item \in inAllSets : has(recs[keys[i]], <<item>>)})
         ELSE SInterFilter(recs, keys, i + 1, smallestKey, inAllSets)

\* inAllSets after both loops (empty when a key is missing)
SInterInAll(recs, keys) ==
    LET best == SInterSmallest(recs, keys, 1,
                    [missing |-> FALSE, smallestSize |-> MaxInt, smallestSet |-> {}, smallestKey |-> ""])
        f == SInterFilter(recs, keys, 1, best.smallestKey, best.smallestSet)
    IN IF best.missing \/ f.missing THEN [missing |-> TRUE, inAllSets |-> {}]
       ELSE [missing |-> FALSE, inAllSets |-> f.inAllSets]

\* the set SInter enumerates last: the key's set (through list()) for one
\* key, inAllSets for more
SInterEnumerated(recs, keys) ==
    IF Len(keys) = 0 THEN {}
    ELSE IF Len(keys) = 1 THEN Lookup(recs, keys[1])
    ELSE SInterInAll(recs, keys).inAllSets

\* SInter; order is the iteration order of the set enumerated last
SInterOn(recs, keys, order) ==
    IF Len(keys) = 0 THEN [panic |-> FALSE, list |-> <<>>]
    ELSE IF Len(keys) = 1
         THEN IF exists(recs, keys[1]) THEN list(recs[keys[1]], order)
              ELSE [panic |-> FALSE, list |-> <<>>]
         ELSE IF SInterInAll(recs, keys).missing THEN [panic |-> FALSE, list |-> <<>>]
              ELSE [panic |-> FALSE, list |-> order]

SInterStoreOn(recs, storeKey, keys, order) == StoreOn(recs, storeKey, SInterOn(recs, keys, order))

\* ---------------------------------------------------------------- actions
Init ==
    /\ records = <<>>
    /\ call = NoCall
    /\ ret = NoRet
    /\ prev = <<>>
    /\ panicked = FALSE
    /\ freshAdd = NoFreshAdd
    /\ prim = NoPrim

Idle == call.op = "none" /\ ~panicked

SAdd ==
    /\ Idle
    /\ UNCHANGED <<freshAdd, prim>>
    /\ \E key \in Keys, members \in MemberLists :
        LET r == SAddOn(records, key, members) IN
        /\ call' = Call("SAdd", key, "", <<>>, members, 0)
        /\ records' = r.records
        /\ ret' = [NoRet EXCEPT !.count = r.added]
        /\ prev' = records
        /\ panicked' = FALSE

SPop ==
    /\ Idle
    /\ UNCHANGED <<freshAdd, prim>>
    /\ \E key \in Keys, count \in Counts :
      \E order \in Orders(Lookup(records, key)) :
        LET r == SPopOn(records, key, count, order) IN
        /\ call' = Call("SPop", key, "", <<>>, <<>>, count)
        /\ records' = r.records
        /\ ret' = [NoRet EXCEPT !.list = r.list]
        /\ prev' = records
        /\ panicked' = FALSE

\* as SRandMember, deleting each visited member from the set as SPop does
SRandMember_DeletesVisited ==
    /\ Idle
    /\ UNCHANGED <<freshAdd, prim>>
    /\ \E key \in Keys, count \in Counts :
      \E order \in Orders(Lookup(records, key)) :
        /\ call' = Call("SRandMember", key, "", <<>>, <<>>, count)
        /\ ret' = [NoRet EXCEPT !.list = SRandMemberOn(records, key, count, order)]
        /\ prev' = records
        /\ panicked' = FALSE
        /\ records' = SPopOn(records, key, count, order).records

SRandMember ==
    /\ Idle
    /\ UNCHANGED <<freshAdd, prim>>
    /\ \E key \in Keys, count \in Counts :
      \E order \in Orders(Lookup(records, key)) :
        /\ call' = Call("SRandMember", key, "", <<>>, <<>>, count)
        /\ ret' = [NoRet EXCEPT !.list = SRandMemberOn(records, key, count, order)]
        /\ prev' = records
        /\ panicked' = FALSE
        /\ UNCHANGED records

SIsMember ==
    /\ Idle
    /\ UNCHANGED <<freshAdd, prim>>
    /\ \E key \in Keys, member \in Members :
        /\ call' = Call("SIsMember", key, "", <<>>, <<member>>, 0)
        /\ ret' = [NoRet EXCEPT !.ok = SIsMemberOn(records, key, member)]
        /\ prev' = records
        /\ panicked' = FALSE
        /\ UNCHANGED records

SRem ==
    /\ Idle
    /\ UNCHANGED <<freshAdd, prim>>
    /\ \E key \in Keys, member \in Members :
        LET r == SRemOn(records, key, member) IN
        /\ call' = Call("SRem", key, "", <<>>, <<member>>, 0)
        /\ records' = r.records
        /\ ret' = [NoRet EXCEPT !.ok = r.ok]
        /\ prev' = records
        /\ panicked' = FALSE

SMove ==
    /\ Idle
    /\ UNCHANGED <<freshAdd, prim>>
    /\ \E src \in Keys, dest \in Keys, member \in Members :
        LET r == SMoveOn(records, src, dest, member) IN
        /\ call' = Call("SMove", src, dest, <<>>, <<member>>, 0)
        /\ records' = r.records
        /\ ret' = [NoRet EXCEPT !.ok = r.ok]
        /\ prev' = records
        /\ panicked' = FALSE

SCard ==
    /\ Idle
    /\ UNCHANGED <<freshAdd, prim>>
    /\ \E key \in Keys :
        /\ call' = Call("SCard", key, "", <<>>, <<>>, 0)
        /\ ret' = [NoRet EXCEPT !.count = SCardOn(records, key)]
        /\ prev' = records
        /\ panicked' = FALSE
        /\ UNCHANGED records

SMembers ==
    /\ Idle
    /\ UNCHANGED <<freshAdd, prim>>
    /\ \E key \in Keys :
      \E order \in Orders(Lookup(records, key)) :
        /\ call' = Call("SMembers", key, "", <<>>, <<>>, 0)
        /\ ret' = [NoRet EXCEPT !.list = SMembersOn(records, key, order)]
        /\ prev' = records
        /\ panicked' = FALSE
        /\ UNCHANGED records

SKeyExists ==
    /\ Idle
    /\ UNCHANGED <<freshAdd, prim>>
    /\ \E key \in Keys :
        /\ call' = Call("SKeyExists", key, "", <<>>, <<>>, 0)
        /\ ret' = [NoRet EXCEPT !.ok = SKeyExistsOn(records, key)]
        /\ prev' = records
        /\ panicked' = FALSE
        /\ UNCHANGED records

SClear ==
    /\ Idle
    /\ UNCHANGED <<freshAdd, prim>>
    /\ \E key \in Keys :
        /\ call' = Call("SClear", key, "", <<>>, <<>>, 0)
        /\ records' = SClearOn(records, key)
        /\ ret' = NoRet
        /\ prev' = records
        /\ panicked' = FALSE

SUnion ==
    /\ Idle
    /\ UNCHANGED <<freshAdd, prim>>
    /\ \E keys \in KeyLists :
      \E order \in Orders(SUnionSet(records, keys)) :
        LET r == SUnionOn(records, keys, order) IN
        /\ call' = Call("SUnion", "", "", keys, <<>>, 0)
        /\ ret' = [NoRet EXCEPT !.list = r.list]
        /\ prev' = records
        /\ panicked' = r.panic
        /\ UNCHANGED records

SUnionStore ==
    /\ Idle
    /\ UNCHANGED <<freshAdd, prim>>
    /\ \E storeKey \in Keys, keys \in KeyLists :
      \E order \in Orders(SUnionSet(records, keys)) :
        LET r == SUnionStoreOn(records, storeKey, keys, order) IN
        /\ call' = Call("SUnionStore", "", storeKey, keys, <<>>, 0)
        /\ records' = r.records
        /\ ret' = [NoRet EXCEPT !.count = r.count]
        /\ prev' = records
        /\ panicked' = r.panic

SDiff ==
    /\ Idle
    /\ UNCHANGED <<freshAdd, prim>>
    /\ \E keys \in KeyLists :
      \E order \in Orders(SDiffFirstSet(records, keys)) :
        LET r == SDiffOn(records, keys, order) IN
        /\ call' = Call("SDiff", "", "", keys, <<>>, 0)
        /\ ret' = [NoRet EXCEPT !.list = r.list]
        /\ prev' = records
        /\ panicked' = r.panic
        /\ UNCHANGED records

SDiffStore ==
    /\ Idle
    /\ UNCHANGED <<freshAdd, prim>>
    /\ \E storeKey \in Keys, keys \in KeyLists :
      \E order \in Orders(SDiffFirstSet(records, keys)) :
        LET r == SDiffStoreOn(records, storeKey, keys, order) IN
        /\ call' = Call("SDiffStore", "", storeKey, keys, <<>>, 0)
        /\ records' = r.records
        /\ ret' = [NoRet EXCEPT !.count = r.count]
        /\ prev' = records
        /\ panicked' = r.panic

SInter ==
    /\ Idle
    /\ UNCHANGED <<freshAdd, prim>>
    /\ \E keys \in KeyLists :
      \E order \in Orders(SInterEnumerated(records, keys)) :
        LET r == SInterOn(records, keys, order) IN
        /\ call' = Call("SInter", "", "", keys, <<>>, 0)
        /\ ret' = [NoRet EXCEPT !.list = r.list]
        /\ prev' = records
        /\ panicked' = r.panic
        /\ UNCHANGED records

SInterStore ==
    /\ Idle
    /\ UNCHANGED <<freshAdd, prim>>
    /\ \E storeKey \in Keys, keys \in KeyLists :
      \E order \in Orders(SInterEnumerated(records, keys)) :
        LET r == SInterStoreOn(records, storeKey, keys, order) IN
        /\ call' = Call("SInterStore", "", storeKey, keys, <<>>, 0)
        /\ records' = r.records
        /\ ret' = [NoRet EXCEPT !.count = r.count]
        /\ prev' = records
        /\ panicked' = r.panic

\* the caller has observed the result and moves on to its next call
Return ==
    /\ call.op # "none"
    /\ ~panicked
    /\ call' = NoCall
    /\ ret' = NoRet
    /\ prev' = records
    /\ freshAdd' = IF call.op = "SAdd" /\ DOMAIN prev = {}
                   THEN [fresh |-> TRUE, key |-> call.key, members |-> call.members]
                   ELSE NoFreshAdd
    /\ UNCHANGED <<records, panicked, prim>>

Next ==
    \/ SAdd
    \/ SPop
    \/ SRandMember
    \/ SIsMember
    \/ SRem
    \/ SMove
    \/ SCard
    \/ SMembers
    \/ SUnion
    \/ SUnionStore
    \/ SKeyExists
    \/ SClear
    \/ SDiff
    \/ SDiffStore
    \/ SInter
    \/ SInterStore
    \/ Return

Spec == Init /\ [][Next]_vars

\* ------------------------------------------------- the primitive set alone
\* A call of one helper of the primitive set on inputs of its own: prim
\* keeps the inputs as given (sets; the receiver is sets[1]), the inputs as
\* the call left them (after) and what the call returned (result, ok).
setAdd ==
    /\ \E s \in SUBSET Members, items \in MemberLists :
          prim' = [NoPrim EXCEPT !.op = "add", !.sets = <<s>>, !.items = items,
                                 !.after = <<add(s, items)>>]
    /\ UNCHANGED storeVars

setRemove ==
    /\ \E s \in SUBSET Members, items \in MemberLists :
          prim' = [NoPrim EXCEPT !.op = "remove", !.sets = <<s>>, !.items = items,
                                 !.after = <<remove(s, items)>>]
    /\ UNCHANGED storeVars

setHas ==
    /\ \E s \in SUBSET Members, items \in MemberLists :
          prim' = [NoPrim EXCEPT !.op = "has", !.sets = <<s>>, !.items = items,
                                 !.after = <<s>>, !.ok = has(s, items)]
    /\ UNCHANGED storeVars

setUnion ==
    /\ \E sets \in SetLists :
          LET r == union(sets) IN
          prim' = [NoPrim EXCEPT !.op = "union", !.sets = sets,
                                 !.after = r.sets, !.result = r.result]
    /\ UNCHANGED storeVars

setDifference ==
    /\ \E sets \in SetLists :
          LET r == difference(sets) IN
          prim' = [NoPrim EXCEPT !.op = "difference", !.sets = sets,
                                 !.after = r.sets, !.result = r.result]
    /\ UNCHANGED storeVars

setIntersection ==
    /\ \E sets \in SetLists :
          LET r == intersection(sets) IN
          prim' = [NoPrim EXCEPT !.op = "intersection", !.sets = sets,
                                 !.after = r.sets, !.result = r.result]
    /\ UNCHANGED storeVars

NextPrim ==
    \/ setAdd
    \/ setRemove
    \/ setHas
    \/ setUnion
    \/ setDifference
    \/ setIntersection

SpecPrim == Init /\ [][NextPrim]_vars

\* ================================================================ claims
\* what the caller observes of a returned slice
NoDuplicates(l) == \A i, j \in 1..Len(l) : i # j => l[i] # l[j]
\* the members every key of a key list that exists holds, united
UnionOf(recs, keys) == UNION {Lookup(recs, k) : k \in Range(keys)}
AllExist(recs, keys) == \A i \in 1..Len(keys) : keys[i] \in DOMAIN recs

\* C1: every call of a public operation returns normally; none panics.
C1_NoCallPanics == ~panicked

\* C2: SAdd returns the number of distinct given members that were not in
\* the key's set before the call; afterwards the key exists and its set is
\* the previous set (empty if the key was absent) united with the given
\* members; so repeating an SAdd returns 0 and leaves the size unchanged.
C2_SAddCountsNewMembers ==
    call.op = "SAdd" =>
        LET before == Lookup(prev, call.key)
            given == Range(call.members)
        IN /\ ret.count = Cardinality(given \ before)
           /\ call.key \in DOMAIN records
           /\ records[call.key] = before \cup given
           /\ (given \subseteq before =>
                  ret.count = 0 /\ SCardOn(records, call.key) = SCardOn(prev, call.key))

\* C2 witness: one SAdd given the same new member twice counted it once.
C2_Witness ==
    /\ call.op = "SAdd"
    /\ Len(call.members) = 2
    /\ call.members[1] = call.members[2]
    /\ call.members[1] \notin Lookup(prev, call.key)
    /\ ret.count = 1

\* C3: for an existing key and count > 0, SPop returns exactly
\* min(count, n) elements, n the size of the set before the call, with no
\* placeholder entries.
C3_SPopReturnsMinCountSize ==
    (call.op = "SPop" /\ call.key \in DOMAIN prev /\ call.count > 0) =>
        /\ Len(ret.list) = Min(call.count, Cardinality(prev[call.key]))
        /\ Nil \notin Range(ret.list)

\* C4: SPop removes exactly what it returns: the returned elements were
\* members before and are not after, they are pairwise distinct, nothing
\* else is removed, and the size drops by the length of the returned slice.
C4_SPopRemovesWhatItReturns ==
    call.op = "SPop" =>
        LET before == Lookup(prev, call.key)
            after == Lookup(records, call.key)
            popped == Range(ret.list)
        IN /\ popped \subseteq before
           /\ popped \cap after = {}
           /\ NoDuplicates(ret.list)
           /\ after = before \ popped
           /\ SCardOn(records, call.key) = SCardOn(prev, call.key) - Len(ret.list)

\* C5: for an existing key and count >= 1, SRandMember returns at most
\* count entries, each a current member of the key's set, and the store is
\* unchanged.
C5_SRandMemberReturnsMembers ==
    (call.op = "SRandMember" /\ call.key \in DOMAIN prev /\ call.count >= 1) =>
        /\ Len(ret.list) <= call.count
        /\ Range(ret.list) \subseteq records[call.key]
        /\ records = prev

\* C6: SUnion returns, without duplicates, exactly the elements of the sets
\* of the given keys that exist (missing keys are skipped, no keys give the
\* empty result, the result depends only on which keys were given).
C6_SUnionReturnsUnion ==
    call.op = "SUnion" =>
        /\ ~panicked
        /\ NoDuplicates(ret.list)
        /\ Range(ret.list) = UnionOf(prev, call.keys)

\* C7: for two or more keys that all exist, SDiff returns each once the
\* elements of the first key's set that are in none of the sets of the keys
\* at positions 2..n, also when such a key is the first key again; with one
\* key it returns that key's members; with the first key absent it returns
\* the empty slice.
C7_SDiffReturnsDifference ==
    call.op = "SDiff" =>
        LET keys == call.keys
            n == Len(keys)
        IN /\ ~panicked
           /\ (n >= 2 /\ AllExist(prev, keys) =>
                  /\ NoDuplicates(ret.list)
                  /\ Range(ret.list) = prev[keys[1]] \ UNION {prev[keys[i]] : i \in 2..n})
           /\ (n = 1 =>
                  /\ NoDuplicates(ret.list)
                  /\ Range(ret.list) = Lookup(prev, keys[1]))
           /\ (n >= 1 /\ keys[1] \notin DOMAIN prev => ret.list = <<>>)

\* C8: with two or more keys, SDiff returns the empty slice when a key at
\* the second position or later is not in the store, whatever the first
\* set holds; a subtrahend that exists and is empty does not do so: when
\* every subtrahend exists and is empty the first set's elements are the
\* result.
C8_SDiffMissingSubtrahendGivesEmpty ==
    (call.op = "SDiff" /\ Len(call.keys) >= 2) =>
        LET keys == call.keys
            rest == 2..Len(keys)
        IN /\ ~panicked
           /\ ((\E i \in rest : keys[i] \notin DOMAIN prev) => ret.list = <<>>)
           /\ ((\A i \in rest : keys[i] \in DOMAIN prev /\ prev[keys[i]] = {}) =>
                  /\ Range(ret.list) = Lookup(prev, keys[1])
                  /\ NoDuplicates(ret.list))

\* C8 witness: SDiff of a non-empty first set and a missing subtrahend
\* returned the empty slice.
C8_Witness ==
    /\ call.op = "SDiff"
    /\ Len(call.keys) >= 2
    /\ Lookup(prev, call.keys[1]) # {}
    /\ \E i \in 2..Len(call.keys) : call.keys[i] \notin DOMAIN prev
    /\ ~panicked
    /\ ret.list = <<>>

\* C9: SInter returns the empty slice for no keys or, with two or more
\* keys, when a key is absent; with one key that key's members; otherwise
\* each once the elements that are in the set of every given key.
C9_SInterReturnsIntersection ==
    call.op = "SInter" =>
        LET keys == call.keys
            n == Len(keys)
        IN /\ ~panicked
           /\ (n = 0 => ret.list = <<>>)
           /\ (n >= 2 /\ ~AllExist(prev, keys) => ret.list = <<>>)
           /\ (n = 1 =>
                  /\ NoDuplicates(ret.list)
                  /\ Range(ret.list) = Lookup(prev, keys[1]))
           /\ (n >= 2 /\ AllExist(prev, keys) =>
                  /\ NoDuplicates(ret.list)
                  /\ Range(ret.list) = {x \in prev[keys[1]] : \A i \in 1..n : x \in prev[keys[i]]})

\* C10: SUnionStore returns the number of elements of the union of the
\* given keys' sets as they were before the call, whatever dest held.
C10_SUnionStoreReturnsUnionSize ==
    call.op = "SUnionStore" =>
        /\ ~panicked
        /\ ret.count = Cardinality(UnionOf(prev, call.keys))

\* C11: SDiffStore and SInterStore return the length of SDiff, respectively
\* SInter, of the same keys on the store as it was before the call, and
\* afterwards every element of that result is a member of dest.
C11_StoreReturnsQueryLength ==
    /\ call.op = "SDiffStore" =>
          /\ ~panicked
          /\ \A order \in Orders(SDiffFirstSet(prev, call.keys)) :
                LET r == SDiffOn(prev, call.keys, order)
                IN /\ ~r.panic
                   /\ ret.count = Len(r.list)
                   /\ Range(r.list) \subseteq Lookup(records, call.dest)
    /\ call.op = "SInterStore" =>
          /\ ~panicked
          /\ \A order \in Orders(SInterEnumerated(prev, call.keys)) :
                LET r == SInterOn(prev, call.keys, order)
                IN /\ ~r.panic
                   /\ ret.count = Len(r.list)
                   /\ Range(r.list) \subseteq Lookup(records, call.dest)

\* C12: SMove returns true exactly when src exists and holds member before
\* the call; then, for src different from dest, member is no longer in src,
\* is in dest, dest exists, and every other element of src and of dest is
\* as it was.
C12_SMoveMovesMember ==
    call.op = "SMove" =>
        LET src == call.key
            dest == call.dest
            member == call.members[1]
        IN /\ ~panicked
           /\ ret.ok = (src \in DOMAIN prev /\ member \in Lookup(prev, src))
           /\ (ret.ok /\ src # dest =>
                  /\ dest \in DOMAIN records
                  /\ src \in DOMAIN records
                  /\ records[src] = prev[src] \ {member}
                  /\ records[dest] = Lookup(prev, dest) \cup {member})

\* C12 witness: a member was moved into a destination key that was absent.
C12_Witness ==
    /\ call.op = "SMove"
    /\ ret.ok
    /\ call.key # call.dest
    /\ call.dest \notin DOMAIN prev
    /\ Cardinality(prev[call.key]) >= 2
    /\ records[call.dest] = {call.members[1]}

\* C13: a self-move is a no-op success: SMove(s, s, x) with x in s's set
\* returns true and leaves the whole store unchanged.
C13_SelfMoveIsNoOp ==
    (call.op = "SMove" /\ call.key = call.dest /\ call.members[1] \in Lookup(prev, call.key)) =>
        /\ ~panicked
        /\ ret.ok
        /\ records = prev
        /\ SIsMemberOn(records, call.key, call.members[1])
        /\ SCardOn(records, call.key) = SCardOn(prev, call.key)

\* C13 witness: a member of a key's set was moved from that key to itself.
C13_Witness ==
    /\ call.op = "SMove"
    /\ call.key = call.dest
    /\ call.members[1] \in Lookup(prev, call.key)
    /\ ret.ok

\* C14: SRem returns true exactly when the key exists and holds the member
\* before the call; on true the member is removed and nothing else changes,
\* on false the store is unchanged.
C14_SRemRemovesMember ==
    call.op = "SRem" =>
        LET key == call.key
            member == call.members[1]
        IN /\ ~panicked
           /\ ret.ok = (key \in DOMAIN prev /\ member \in Lookup(prev, key))
           /\ (ret.ok => records = Put(prev, key, prev[key] \ {member}))
           /\ (~ret.ok => records = prev)

\* C14 witness: a member was removed from a set that held another one too.
C14_Witness ==
    /\ call.op = "SRem"
    /\ ret.ok
    /\ Cardinality(prev[call.key]) >= 2
    /\ call.members[1] \notin records[call.key]

\* C15: in every reachable state and for every key the three reads agree:
\* SMembers lists each element of the set exactly once, its length is
\* SCard, and an element occurs in it exactly when SIsMember is true; for an
\* absent key they give the empty slice, 0 and false.  Every store the
\* program reaches is the store of a state between two calls, where the
\* three reads are compared for every key and iteration order; the same is
\* stated of the answer each read call has returned.
C15_ReadsAgree ==
    /\ call.op = "none" =>
       \A key \in Keys : \A order \in Orders(Lookup(records, key)) :
          LET members == SMembersOn(records, key, order)
          IN /\ NoDuplicates(members)
             /\ Len(members) = SCardOn(records, key)
             /\ Range(members) = Lookup(records, key)
             /\ \A e \in Members : (e \in Range(members)) = SIsMemberOn(records, key, e)
             /\ (key \notin DOMAIN records =>
                    /\ members = <<>>
                    /\ SCardOn(records, key) = 0
                    /\ \A e \in Members : ~SIsMemberOn(records, key, e))
    /\ call.op = "SMembers" =>
          /\ ~panicked
          /\ NoDuplicates(ret.list)
          /\ Len(ret.list) = SCardOn(records, call.key)
          /\ \A e \in Members : (e \in Range(ret.list)) = SIsMemberOn(records, call.key, e)
    /\ call.op = "SCard" => ret.count = Cardinality(Lookup(prev, call.key))
    /\ call.op = "SIsMember" => ret.ok = (call.members[1] \in Lookup(prev, call.key))

\* C15 witness: SMembers returned both members of a two-element set.
C15_Witness ==
    /\ call.op = "SMembers"
    /\ Len(ret.list) = 2
    /\ Cardinality(records[call.key]) = 2

\* the answers of every query whose key arguments are drawn from Keys, on
\* the stores A and B, are the same
SameAnswers(A, B) ==
    /\ \A key \in Keys :
          /\ SCardOn(A, key) = SCardOn(B, key)
          /\ \A e \in Members : SIsMemberOn(A, key, e) = SIsMemberOn(B, key, e)
          /\ \A order \in Orders(Lookup(A, key)) :
                /\ SMembersOn(A, key, order) = SMembersOn(B, key, order)
                /\ \A count \in Counts :
                      SRandMemberOn(A, key, count, order) = SRandMemberOn(B, key, count, order)
    /\ \A keys \in KeyLists :
          /\ \A order \in Orders(SUnionSet(A, keys)) :
                SUnionOn(A, keys, order) = SUnionOn(B, keys, order)
          /\ \A order \in Orders(SDiffFirstSet(A, keys)) :
                SDiffOn(A, keys, order) = SDiffOn(B, keys, order)
          /\ SInterEnumerated(A, keys) = SInterEnumerated(B, keys)
          /\ \A order \in Orders(SInterEnumerated(A, keys)) :
                SInterOn(A, keys, order) = SInterOn(B, keys, order)

\* C16: of two stores that differ only in that key k is absent in one and
\* present with an empty set in the other, every query other than
\* SKeyExists returns the same on both (SCard, SMembers, SIsMember,
\* SRandMember, SUnion, SDiff, SInter, k a subtrahend of SDiff included).
C16_AbsentKeyLikeEmptyKey ==
    \A k \in Keys \ DOMAIN records : SameAnswers(records, Put(records, k, newSet))

\* C17: on a store that holds no key, as New() returns it, SKeyExists is
\* false for every key; SAdd with no members on an absent key creates the
\* key as an empty set: afterwards SKeyExists is true and SCard is 0.
C17_NewStoreAndEmptySAdd ==
    /\ (DOMAIN records = {} => \A k \in Keys : ~SKeyExistsOn(records, k))
    /\ (call.op = "SKeyExists" /\ DOMAIN prev = {} => ~ret.ok)
    /\ (call.op = "SAdd" /\ Len(call.members) = 0 /\ call.key \notin DOMAIN prev =>
           /\ ~panicked
           /\ ret.count = 0
           /\ SKeyExistsOn(records, call.key)
           /\ SCardOn(records, call.key) = 0)

\* C17 witness: SAdd with no members was called on an absent key.
C17_Witness ==
    /\ call.op = "SAdd"
    /\ Len(call.members) = 0
    /\ call.key \notin DOMAIN prev
    /\ call.key \in DOMAIN records

\* C18: a key that is present stays present until SClear is called on it:
\* no other call removes a key, also when it removes the set's last element.
C18_KeyStaysUntilSClear ==
    \A k \in DOMAIN prev :
        k \notin DOMAIN records => (call.op = "SClear" /\ call.key = k)

\* C18 witness: a call other than SClear took the last element of a set and
\* the key is still present.
C18_Witness ==
    /\ call.op \in {"SRem", "SPop", "SMove"}
    /\ Lookup(prev, call.key) # {}
    /\ call.key \in DOMAIN records
    /\ records[call.key] = {}

\* C19: SKeyExists is true exactly when the key is present in records,
\* empty set or not; SClear of a present key removes the key with all its
\* elements (afterwards SKeyExists is false, SCard 0, SMembers empty) and
\* SClear of an absent key changes nothing.
C19_SKeyExistsAndSClear ==
    /\ call.op = "SKeyExists" =>
          /\ ~panicked
          /\ ret.ok = (call.key \in DOMAIN prev)
          /\ records = prev
    /\ call.op = "SClear" =>
          /\ ~panicked
          /\ (call.key \in DOMAIN prev =>
                 /\ ~SKeyExistsOn(records, call.key)
                 /\ SCardOn(records, call.key) = 0
                 /\ \A order \in Orders(Lookup(records, call.key)) :
                       SMembersOn(records, call.key, order) = <<>>
                 /\ \A e \in Members : ~SIsMemberOn(records, call.key, e))
          /\ (call.key \notin DOMAIN prev => records = prev)

\* C19 witness: SClear was called on a key whose set held elements.
C19_Witness ==
    /\ call.op = "SClear"
    /\ call.key \in DOMAIN prev
    /\ prev[call.key] # {}
    /\ call.key \notin DOMAIN records

\* C20: SPop with count <= 0 and SRandMember with count < 1 return the
\* empty slice and leave the store unchanged, for a present and for an
\* absent key; on an absent key both return the empty slice for any count
\* and do not create the key.
C20_CountAndAbsentKeyGuards ==
    /\ (call.op = "SPop" /\ (call.count <= 0 \/ call.key \notin DOMAIN prev)) =>
          /\ ~panicked
          /\ ret.list = <<>>
          /\ records = prev
    /\ (call.op = "SRandMember" /\ (call.count < 1 \/ call.key \notin DOMAIN prev)) =>
          /\ ~panicked
          /\ ret.list = <<>>
          /\ records = prev

\* C20 witness: SPop with a positive count was called on an absent key.
C20_Witness ==
    /\ call.op = "SPop"
    /\ call.count > 0
    /\ call.key \notin DOMAIN prev
    /\ ret.list = <<>>

\* The call is an SPop of at least one and at most all of the pairwise
\* distinct members that the call before it added to a store without keys.
SPopAfterFreshAdd ==
    /\ call.op = "SPop"
    /\ freshAdd.fresh
    /\ call.key = freshAdd.key
    /\ NoDuplicates(freshAdd.members)
    /\ call.count >= 1
    /\ call.count <= Len(freshAdd.members)

StoreOps == {"SUnionStore", "SDiffStore", "SInterStore"}

\* the set a store variant's query enumerates, and the query's outcome
QueryEnumerated(op, recs, keys) ==
    CASE op = "SUnionStore" -> SUnionSet(recs, keys)
      [] op = "SDiffStore" -> SDiffFirstSet(recs, keys)
      [] op = "SInterStore" -> SInterEnumerated(recs, keys)

QueryOn(op, recs, keys, order) ==
    CASE op = "SUnionStore" -> SUnionOn(recs, keys, order)
      [] op = "SDiffStore" -> SDiffOn(recs, keys, order)
      [] op = "SInterStore" -> SInterOn(recs, keys, order)

EmptyResult(op, recs, keys) ==
    \A order \in Orders(QueryEnumerated(op, recs, keys)) :
        QueryOn(op, recs, keys, order) = [panic |-> FALSE, list |-> <<>>]

\* C22: when the result computed by SUnionStore, SDiffStore or SInterStore
\* is empty, the call returns 0 and the store is as it was before; an absent
\* destination key stays absent.
C22_EmptyResultStoresNothing ==
    (call.op \in StoreOps /\ EmptyResult(call.op, prev, call.keys)) =>
        /\ ~panicked
        /\ ret.count = 0
        /\ records = prev
        /\ call.dest \notin DOMAIN prev => ~SKeyExistsOn(records, call.dest)

\* an SDiffStore from a non-empty first set whose result is empty, into an
\* absent destination
C22_Witness ==
    /\ call.op = "SDiffStore"
    /\ Len(call.keys) = 2
    /\ Lookup(prev, call.keys[1]) # {}
    /\ EmptyResult(call.op, prev, call.keys)
    /\ call.dest \notin DOMAIN prev
    /\ call.dest \notin DOMAIN records
    /\ ret.count = 0

\* C23: after SUnionStore, SDiffStore or SInterStore the destination's set
\* is its set before the call united with the result computed on the store
\* before the call, also when the destination is one of the source keys.
C23_StoreMergesIntoDest ==
    call.op \in StoreOps =>
        /\ ~panicked
        /\ \A order \in Orders(QueryEnumerated(call.op, prev, call.keys)) :
              LET r == QueryOn(call.op, prev, call.keys, order)
              IN /\ ~r.panic
                 /\ Lookup(records, call.dest) = Lookup(prev, call.dest) \cup Range(r.list)

\* C24: a key that was absent before a call and is present after it is the
\* key of an SAdd, the destination of an SMove that returned true, or the
\* destination of a store variant, and it holds exactly what that call
\* wrote: the members given to SAdd, the moved member, or the stored result.
C24_KeysAppearOnlyByWriting ==
    \A k \in DOMAIN records \ DOMAIN prev :
        \/ /\ call.op = "SAdd"
           /\ call.key = k
           /\ records[k] = Range(call.members)
        \/ /\ call.op = "SMove"
           /\ call.dest = k
           /\ ret.ok
           /\ records[k] = {call.members[1]}
        \/ /\ call.op \in StoreOps
           /\ call.dest = k
           /\ \A order \in Orders(QueryEnumerated(call.op, prev, call.keys)) :
                 records[k] = Range(QueryOn(call.op, prev, call.keys, order).list)

\* a store variant has created its destination key
C24_Witness ==
    /\ call.op \in StoreOps
    /\ call.dest \notin DOMAIN prev
    /\ call.dest \in DOMAIN records
    /\ records[call.dest] # {}

\* C25: when src is absent or member is not in src's set, SMove returns
\* false and the whole store is as it was before: dest is not created and
\* member is not added to dest.
C25_FailedSMoveChangesNothing ==
    (call.op = "SMove" /\ call.members[1] \notin Lookup(prev, call.key)) =>
        /\ ~panicked
        /\ ~ret.ok
        /\ records = prev
        /\ call.dest \notin DOMAIN prev => call.dest \notin DOMAIN records
        /\ call.members[1] \notin Lookup(prev, call.dest) =>
              call.members[1] \notin Lookup(records, call.dest)

\* a failed SMove from an existing key that lacks the member, into an absent
\* destination
C25_Witness ==
    /\ call.op = "SMove"
    /\ call.key \in DOMAIN prev
    /\ prev[call.key] # {}
    /\ call.members[1] \notin prev[call.key]
    /\ call.dest \notin DOMAIN prev
    /\ ~ret.ok
    /\ records = prev

QueryOps == {"SCard", "SMembers", "SIsMember", "SRandMember", "SKeyExists",
             "SUnion", "SDiff", "SInter"}

\* C26: SCard, SMembers, SIsMember, SRandMember, SKeyExists, SUnion, SDiff
\* and SInter leave the store as it was for all arguments: the same keys are
\* present, every set holds what it held, and an absent key that was queried
\* is still absent.
C26_QueriesLeaveStoreUnchanged ==
    call.op \in QueryOps =>
        /\ DOMAIN records = DOMAIN prev
        /\ \A k \in DOMAIN prev : records[k] = prev[k]
        /\ records = prev
        /\ \A k \in {call.key} \cup Range(call.keys) :
              ~SKeyExistsOn(prev, k) => ~SKeyExistsOn(records, k)

\* an SDiff of an existing non-empty set with an absent key has returned
C26_Witness ==
    /\ call.op = "SDiff"
    /\ ~panicked
    /\ Len(call.keys) = 2
    /\ Lookup(prev, call.keys[1]) # {}
    /\ call.keys[2] \notin DOMAIN prev
    /\ call.keys[2] \notin DOMAIN records
    /\ records = prev

\* the existence or the contents of key k differ before and after the call
KeyChanged(k) ==
    \/ (k \in DOMAIN prev) # (k \in DOMAIN records)
    \/ Lookup(prev, k) # Lookup(records, k)

\* C27: SAdd, SRem, SPop and SClear on key k leave the existence and the
\* contents of every other key as they were; SMove changes at most src and
\* dest; SUnionStore, SDiffStore and SInterStore change at most dest.
C27_KeysAreIndependent ==
    /\ call.op \in {"SAdd", "SRem", "SPop", "SClear"} =>
          \A k \in Keys : KeyChanged(k) => k = call.key
    /\ call.op = "SMove" =>
          \A k \in Keys : KeyChanged(k) => k \in {call.key, call.dest}
    /\ call.op \in StoreOps =>
          \A k \in Keys : KeyChanged(k) => k = call.dest

\* an SClear of one key while another key holds members
C27_Witness ==
    /\ call.op = "SClear"
    /\ KeyChanged(call.key)
    /\ \E k \in DOMAIN prev \ {call.key} :
          /\ prev[k] # {}
          /\ k \in DOMAIN records
          /\ records[k] = prev[k]

\* C28: the elements SInter returns do not depend on the order of the keys,
\* on which set is the smallest, or on a key being listed more than once:
\* every key list with the same keys gives the same elements.
C28_SInterIgnoresOrderAndDuplicates ==
    call.op = "SInter" =>
        /\ ~panicked
        /\ \A keys2 \in KeyLists :
             Range(keys2) = Range(call.keys) =>
                 \A order \in Orders(SInterEnumerated(prev, keys2)) :
                     LET r == SInterOn(prev, keys2, order)
                     IN ~r.panic /\ Range(r.list) = Range(ret.list)

\* C29: has(items...) is false for no items and otherwise true exactly when
\* every given item is in the set; add and remove with no items leave the
\* set as it was.
C29_HasAddRemoveOnNoItems ==
    /\ prim.op = "has" =>
          /\ Len(prim.items) = 0 => ~prim.ok
          /\ Len(prim.items) > 0 => (prim.ok <=> Range(prim.items) \subseteq prim.sets[1])
          /\ prim.after = prim.sets
    /\ (prim.op \in {"add", "remove"} /\ Len(prim.items) = 0) => prim.after = prim.sets

\* has was called with no items on a set that holds members
C29_Witness ==
    /\ prim.op = "has"
    /\ Len(prim.items) = 0
    /\ prim.sets[1] # {}
    /\ ~prim.ok

\* C30: union, difference and intersection over N sets return, in turn, the
\* elements of any input, the elements of the first input that are in none
\* of the others, and the elements that are in every input; each returns
\* the empty set for no inputs, and none changes an input set.
C30_UnionDifferenceIntersection ==
    LET n == Len(prim.sets) IN
    /\ prim.op = "union" =>
          /\ prim.result = UNION {prim.sets[i] : i \in 1..n}
          /\ n = 0 => prim.result = {}
          /\ prim.after = prim.sets
    /\ prim.op = "difference" =>
          /\ n > 0 => prim.result = prim.sets[1] \ UNION {prim.sets[i] : i \in 2..n}
          /\ n = 0 => prim.result = {}
          /\ prim.after = prim.sets
    /\ prim.op = "intersection" =>
          /\ n > 0 => prim.result = {x \in prim.sets[1] : \A i \in 1..n : x \in prim.sets[i]}
          /\ n = 0 => prim.result = {}
          /\ prim.after = prim.sets

\* difference of two overlapping sets, with something left of the first
C30_Witness ==
    /\ prim.op = "difference"
    /\ Len(prim.sets) = 2
    /\ prim.sets[1] \cap prim.sets[2] # {}
    /\ prim.result # {}
    /\ prim.result = prim.sets[1] \ prim.sets[2]
    /\ prim.after = prim.sets
====
